---- MODULE Spec2Model ----
(***************************************************************************)
(* OpenMuse backend: the streaming reconstructor of partial MusicXML       *)
(* (claude_service.py), the validator and the structural editor            *)
(* (musicxml_utils.py) and the streaming endpoint (server.py).             *)
(*                                                                         *)
(* Text is modelled as a sequence of tokens: a token is one tag, one run   *)
(* of character data, or one unfinished tag at the end of a buffer.  The   *)
(* substring searches of the code are searches for tokens whose text       *)
(* holds the substring.                                                    *)
(***************************************************************************)
EXTENDS Integers, Sequences, FiniteSets, TLC

VARIABLES
    conversation_history,    \* ClaudeService.conversation_history (roles)
    accumulated_text,        \* chat_stream: accumulated_text
    last_rendered_measures,  \* chat_stream: last_rendered_measures
    pc,                      \* position of the /chat/stream request
    out,                     \* events delivered to the consumer, in order
    emitted,                 \* snapshot yielded by the last growth event
    final_xml,               \* generate(): final_xml
    faults,                  \* upstream: tokens sent outside the score grammar
    doc,                     \* structural editor: the current document
    edit,                    \* structural editor: the last operation
    vdoc,                    \* validator: the document under validation
    vresult,                 \* validator: the last result
    call,                    \* table lookup, builder, reconstructor: the call made
    ret,                     \* table lookup, builder, reconstructor: what it returned
    session                  \* concurrent /chat/stream requests: their local state

streamVars == <<conversation_history, accumulated_text, last_rendered_measures,
                pc, out, emitted, final_xml, faults>>
editVars == <<doc, edit>>
validateVars == <<vdoc, vresult>>
callVars == <<call, ret>>
sessionVars == <<session>>
vars == <<streamVars, editVars, validateVars, callVars, sessionVars>>

\* Python's None, where a str is expected
None == "None"
\* Python's None, where a text (a sequence of tokens) is expected
NoText == <<[k |-> "none", t |-> "None", id |-> "-"]>>

(***************************************************************************)
(* Tokens of text.                                                         *)
(***************************************************************************)
NoId == "-"

Open(tag, id) == [k |-> "open", t |-> tag, id |-> id]
Close(tag) == [k |-> "close", t |-> tag, id |-> NoId]
\* character data without markup
Prose == [k |-> "text", t |-> "prose", id |-> NoId]
\* the markdown fence that opens a musicxml code block, and the one that closes it
Fence == [k |-> "text", t |-> "fence-musicxml", id |-> NoId]
FenceXml == [k |-> "text", t |-> "fence-xml", id |-> NoId]
FenceEnd == [k |-> "text", t |-> "fence", id |-> NoId]
\* the XML declaration
XmlDecl == [k |-> "decl", t |-> "?xml", id |-> NoId]
\* the document type declaration (MUSICXML_DOCTYPE)
Doctype == [k |-> "doctype", t |-> "!DOCTYPE", id |-> NoId]
\* the text of an open tag cut before its closing bracket (the end of a growing buffer)
Frag(tag, id) == [k |-> "frag", t |-> tag, id |-> id]

RootOpen == Open("score-partwise", NoId)
RootClose == Close("score-partwise")
PlOpen == Open("part-list", NoId)
PlClose == Close("part-list")
PartOpen(id) == Open("part", id)
PartClose == Close("part")
MeasOpen == Open("measure", NoId)
MeasClose == Close("measure")

IsOpen(tok) == tok.k = "open"
IsClose(tok) == tok.k = "close"

RECURSIVE SeqSum(_)
SeqSum(s) == IF s = <<>> THEN 0 ELSE Head(s) + SeqSum(Tail(s))

Indices(s, P(_)) == {i \in 1..Len(s) : P(s[i])}
Count(s, P(_)) == Cardinality(Indices(s, P))
Min(S) == CHOOSE x \in S : \A y \in S : x <= y
Max(S) == CHOOSE x \in S : \A y \in S : x >= y

(***************************************************************************)
(* The XML parser (lxml etree.fromstring, xml.etree ET.fromstring): the    *)
(* text parses when an optional declaration comes first, exactly one root  *)
(* element follows, every close tag matches the innermost open element,    *)
(* no character data lies outside the root and no tag is unfinished.       *)
(***************************************************************************)
RECURSIVE Balanced(_, _, _)
Balanced(toks, stack, roots) ==
    IF toks = <<>> THEN stack = <<>> /\ roots = 1
    ELSE LET tok == Head(toks) IN
         CASE tok.k = "open" ->
                  /\ (stack = <<>> => roots = 0)
                  /\ Balanced(Tail(toks), <<tok.t>> \o stack,
                              IF stack = <<>> THEN roots + 1 ELSE roots)
           [] tok.k = "close" ->
                  /\ stack # <<>>
                  /\ Head(stack) = tok.t
                  /\ Balanced(Tail(toks), Tail(stack), roots)
           [] tok.k = "text" ->
                  /\ stack # <<>>
                  /\ Balanced(Tail(toks), stack, roots)
           [] tok.k = "doctype" ->
                  /\ stack = <<>>
                  /\ roots = 0
                  /\ Balanced(Tail(toks), stack, roots)
           [] OTHER -> FALSE

WellFormed(toks) ==
    IF toks # <<>> /\ Head(toks) = XmlDecl
    THEN Balanced(Tail(toks), <<>>, 0)
    ELSE Balanced(toks, <<>>, 0)

\* The element tree of a text that parses, read off the tokens.
Prolog(toks) == {i \in 1..Len(toks) : toks[i].k \in {"decl", "doctype"}}
Body(toks) == SubSeq(toks, Cardinality(Prolog(toks)) + 1, Len(toks))

\* number of elements open before token i
Depth(toks, i) ==
    Cardinality({j \in 1..(i - 1) : IsOpen(toks[j])})
    - Cardinality({j \in 1..(i - 1) : IsClose(toks[j])})

\* the close tag of the element opened at i
EndOf(toks, i) ==
    Min({j \in (i + 1)..Len(toks) :
            IsClose(toks[j]) /\ Depth(toks, j) = Depth(toks, i) + 1})

\* element.findall(tag): the direct children with that tag, in document order
FindAll(toks, i, tag) ==
    {j \in (i + 1)..(EndOf(toks, i) - 1) :
        /\ IsOpen(toks[j])
        /\ toks[j].t = tag
        /\ Depth(toks, j) = Depth(toks, i) + 1}

(***************************************************************************)
(* validate_musicxml                                                       *)
(***************************************************************************)
Valid == [ok |-> TRUE, err |-> None, arg |-> None]
Invalid(err, arg) == [ok |-> FALSE, err |-> err, arg |-> arg]

ErrSyntax == "XML syntax error"
ErrRoot == "Invalid root element"
ErrPartList == "Missing required <part-list> element"
ErrNoParts == "No <part> elements found"
ErrNoMeasures == "Part has no measures"

AcceptedRoots == {"score-partwise", "score-timewise"}

\* Variant: the part check placed before the part-list check.
ValidatePartsFirst(xml_string) ==
    IF ~WellFormed(xml_string) THEN Invalid(ErrSyntax, None)
    ELSE
    LET toks == Body(xml_string)
        parts == FindAll(toks, 1, "part")
        empty == {p \in parts : FindAll(toks, p, "measure") = {}}
    IN  IF toks[1].t \notin AcceptedRoots THEN Invalid(ErrRoot, toks[1].t)
        ELSE IF parts = {} THEN Invalid(ErrNoParts, None)
        ELSE IF FindAll(toks, 1, "part-list") = {}
             THEN Invalid(ErrPartList, None)
        ELSE IF empty # {}
             THEN Invalid(ErrNoMeasures,
                          IF toks[Min(empty)].id = NoId THEN "unknown"
                          ELSE toks[Min(empty)].id)
        ELSE Valid

validate_musicxml(xml_string) ==
    IF ~WellFormed(xml_string) THEN Invalid(ErrSyntax, None)
    ELSE
    LET toks == Body(xml_string)
        parts == FindAll(toks, 1, "part")
        empty == {p \in parts : FindAll(toks, p, "measure") = {}}
    IN  IF toks[1].t \notin AcceptedRoots THEN Invalid(ErrRoot, toks[1].t)
        ELSE IF FindAll(toks, 1, "part-list") = {}
             THEN Invalid(ErrPartList, None)
        ELSE IF parts = {} THEN Invalid(ErrNoParts, None)
        ELSE IF empty # {}
             THEN Invalid(ErrNoMeasures,
                          IF toks[Min(empty)].id = NoId THEN "unknown"
                          ELSE toks[Min(empty)].id)
        ELSE Valid

(***************************************************************************)
(* ClaudeService._try_extract_partial_musicxml                             *)
(***************************************************************************)
\* '<score-partwise' occurs in the token's text
HasRootStart(tok) == tok.k \in {"open", "frag"} /\ tok.t = "score-partwise"
\* '>' occurs in the token's text
HasGt(tok) == tok.k \in {"open", "close", "decl", "doctype"}
\* '<part ' occurs in the token's text
HasPartSpace(tok) == tok.k \in {"open", "frag"} /\ tok.t = "part" /\ tok.id # NoId
\* '<part>' occurs in the token's text
HasPartBare(tok) == tok.k = "open" /\ tok.t = "part" /\ tok.id = NoId
IsPartClose(tok) == tok = PartClose
IsMeasClose(tok) == tok = MeasClose
IsPlClose(tok) == tok = PlClose

\* re.search(r'(<score-partwise[^>]*>.*)', text, re.DOTALL): where the match starts
RootMatch(text) ==
    LET starts == {i \in Indices(text, HasRootStart) :
                      \E j \in i..Len(text) : HasGt(text[j])}
    IN  IF starts = {} THEN 0 ELSE Min(starts)

\* Variant: find instead of rfind, the slice ends at the first measure close.
TruncateToFirstMeasure(partial) ==
    SubSeq(partial, 1, Min(Indices(partial, IsMeasClose)))

\* partial[:partial.rfind('</measure>') + len('</measure>')]
TruncateToLastMeasure(partial) ==
    SubSeq(partial, 1, Max(Indices(partial, IsMeasClose)))

\* Variant: the part close tags of the slice are not subtracted.
OpenedParts(partial) ==
    Count(partial, HasPartSpace) + Count(partial, HasPartBare)

\* partial.count('<part ') + partial.count('<part>') - partial.count('</part>')
OpenParts(partial) ==
    Count(partial, HasPartSpace) + Count(partial, HasPartBare)
    - Count(partial, IsPartClose)

\* for _ in range(open_parts): partial += '\n  </part>'
PartClosers(n) == [i \in 1..(IF n > 0 THEN n ELSE 0) |-> PartClose]

WithDeclaration(partial) ==
    IF Head(partial).k = "decl" THEN partial ELSE <<XmlDecl>> \o partial

\* the text handed to the parser: the slice, the synthetic closers, the declaration
Synthesized(text) ==
    LET slice == TruncateToLastMeasure(SubSeq(text, RootMatch(text), Len(text)))
    IN  WithDeclaration(slice \o PartClosers(OpenParts(slice)) \o <<RootClose>>)

\* the checks before the trial parse all pass
Synthesizes(text) ==
    /\ Indices(text, HasRootStart) # {}
    /\ Indices(text, IsPlClose) # {}
    /\ Indices(text, IsMeasClose) # {}
    /\ RootMatch(text) # 0
    /\ Indices(SubSeq(text, RootMatch(text), Len(text)), IsMeasClose) # {}

\* Variant: without the trial parse, the synthesized text is returned as it is.
TryExtractUnparsed(text) ==
    IF Synthesizes(text) THEN Synthesized(text) ELSE NoText

_try_extract_partial_musicxml(text) ==
    IF Indices(text, HasRootStart) = {} THEN NoText
    ELSE IF Indices(text, IsPlClose) = {} THEN NoText
    ELSE IF Indices(text, IsMeasClose) = {} THEN NoText
    ELSE IF RootMatch(text) = 0 THEN NoText
    ELSE IF Indices(SubSeq(text, RootMatch(text), Len(text)), IsMeasClose) = {}
         THEN NoText
    ELSE IF ~WellFormed(Synthesized(text)) THEN NoText
    ELSE Synthesized(text)

(***************************************************************************)
(* ClaudeService._extract_musicxml                                         *)
(***************************************************************************)
IsAnyFence(tok) == tok \in {Fence, FenceXml, FenceEnd}

\* match.group(1).strip(): the text between the fence at i and the next fence,
\* or None when no fence follows
FencedBlock(text, i) ==
    LET ends == {j \in (i + 1)..Len(text) : IsAnyFence(text[j])}
    IN  IF ends = {} THEN NoText ELSE SubSeq(text, i + 1, Min(ends) - 1)

\* the first index at which the pattern opened by `fence` matches, or 0
FirstBlock(text, fence) ==
    LET opens == {i \in 1..Len(text) :
                     text[i] = fence /\ FencedBlock(text, i) # NoText}
    IN  IF opens = {} THEN 0 ELSE Min(opens)

_extract_musicxml(text) ==
    LET m == FirstBlock(text, Fence)
        x == FirstBlock(text, FenceXml)
    IN  IF m # 0 THEN FencedBlock(text, m)
        ELSE IF x # 0 /\ \E j \in 1..Len(FencedBlock(text, x)) :
                            /\ FencedBlock(text, x)[j].k \in {"open", "frag"}
                            /\ FencedBlock(text, x)[j].t \in AcceptedRoots
             THEN FencedBlock(text, x)
        ELSE NoText

\* Python truth of a str | None
Truthy(x) == x # NoText /\ x # <<>>

(***************************************************************************)
(* EngravingService.quick_fix                                              *)
(***************************************************************************)
quick_fix(musicxml) ==
    LET decl == IF Head(musicxml).k # "decl" THEN <<XmlDecl>> \o musicxml
                ELSE musicxml
        roots == Indices(decl, HasRootStart)
    IN  IF Indices(decl, LAMBDA tok : tok.k = "doctype") = {} /\ roots # {}
        THEN SubSeq(decl, 1, Min(roots) - 1) \o <<Doctype>>
             \o SubSeq(decl, Min(roots), Len(decl))
        ELSE decl

(***************************************************************************)
(* The upstream text source (client.messages.stream): it sends the text    *)
(* of a reply in increments.  A reply follows the shape of a fenced score  *)
(* document, except for at most MaxFaults tokens that do not.              *)
(***************************************************************************)
MaxLen == 9
MaxChunk == 2
MaxFaults == 1
MaxHistory == 1

Alphabet ==
    {Prose, Fence, FenceXml, FenceEnd, XmlDecl, RootOpen, RootClose, PlOpen,
     PlClose, PartOpen("P1"), PartOpen("P2"), PartOpen(NoId), PartClose,
     MeasOpen, MeasClose}

NoToken == [k |-> "none", t |-> "None", id |-> NoId]

\* the tokens a score document allows after `last` (NoToken: at the start)
Follows(last) ==
    CASE last = NoToken -> {Prose, Fence, RootOpen}
      [] last = Prose -> {Fence, RootOpen}
      [] last = Fence -> {XmlDecl, RootOpen}
      [] last = XmlDecl -> {RootOpen}
      [] last = RootOpen -> {PlOpen}
      [] last = PlOpen -> {PlClose}
      [] last = PlClose -> {PartOpen("P1")}
      [] last = PartOpen("P1") -> {MeasOpen}
      [] last = PartOpen("P2") -> {MeasOpen}
      [] last = MeasOpen -> {MeasClose}
      [] last = MeasClose -> {MeasOpen, PartClose}
      [] last = PartClose -> {PartOpen("P2"), RootClose}
      [] last = RootClose -> {FenceEnd}
      [] OTHER -> {}

LastOf(text) == IF text = <<>> THEN NoToken ELSE text[Len(text)]

\* an unfinished tag at the end of the text is finished by the next increment
Completed(text) ==
    IF text # <<>> /\ LastOf(text).k = "frag"
    THEN SubSeq(text, 1, Len(text) - 1) \o <<Open(LastOf(text).t, LastOf(text).id)>>
    ELSE text

\* the increment ends inside the last tag it sends
CutLast(text) ==
    SubSeq(text, 1, Len(text) - 1) \o <<Frag(LastOf(text).t, LastOf(text).id)>>

\* tokens of `toks` that the score grammar does not allow where they stand
FaultsIn(before, toks) ==
    Cardinality({i \in 1..Len(toks) :
        toks[i] \notin Follows(IF i = 1 THEN LastOf(before) ELSE toks[i - 1])})

\* the texts that `text` becomes by at most k more tokens, at most `budget` of
\* them tokens that the score grammar does not allow where they stand
RECURSIVE Extended(_, _, _)
Extended(text, budget, k) ==
    IF k = 0 \/ Len(text) >= MaxLen THEN {text}
    ELSE {text} \cup UNION {
            Extended(Append(text, tok),
                     IF tok \in Follows(LastOf(text)) THEN budget ELSE budget - 1,
                     k - 1) :
            tok \in IF budget > 0 THEN Alphabet ELSE Follows(LastOf(text))}

\* the texts the buffer can become by one nonempty increment
Grown(text, used) ==
    LET base == Completed(text)
        whole == Extended(base, MaxFaults - used, MaxChunk)
    IN  (whole \cup {CutLast(w) : w \in {v \in whole : v # base /\ IsOpen(LastOf(v))}})
        \ {text}

\* the outcomes of the engraving request: it raises, or it answers with a
\* document (the one sent, a valid one, or one without parts)
EngravedValid ==
    <<XmlDecl, RootOpen, PlOpen, PlClose, PartOpen("P1"), MeasOpen, MeasClose,
      PartClose, RootClose>>
EngravedInvalid == <<XmlDecl, RootOpen, PlOpen, PlClose, RootClose>>
EngraveOutcomes(musicxml) == {NoText, musicxml, EngravedValid, EngravedInvalid}

(***************************************************************************)
(* POST /chat/stream: generate() driving ClaudeService.chat_stream          *)
(***************************************************************************)
Event(type, measures, musicxml) ==
    [type |-> type, measures |-> measures, musicxml |-> musicxml]

StreamInit ==
    /\ conversation_history = <<>>
    /\ accumulated_text = <<>>
    /\ last_rendered_measures = 0
    /\ pc = "idle"
    /\ out = <<>>
    /\ emitted = NoText
    /\ final_xml = NoText
    /\ faults = 0

\* the request arrives: chat_stream appends the user message and opens the
\* stream (while the history has fewer than `cap` entries)
BeginStream(cap) ==
    /\ pc \in {"idle", "done"}
    /\ Len(conversation_history) < cap
    /\ conversation_history' = Append(conversation_history, "user")
    /\ accumulated_text' = <<>>
    /\ last_rendered_measures' = 0
    /\ out' = <<>>
    /\ emitted' = NoText
    /\ final_xml' = NoText
    /\ faults' = 0
    /\ pc' = "stream"
    /\ UNCHANGED <<editVars, validateVars,
                   callVars, sessionVars>>

ChatStreamBegin == BeginStream(MaxHistory)

\* measure_count = partial_xml.count('</measure>')
MeasureCount(partial_xml) == Count(partial_xml, IsMeasClose)

\* Variant: >= instead of >, a snapshot of the same measure count is yielded again.
HasNewOrSameMeasures(measure_count, last) == measure_count >= last

\* if measure_count > last_rendered_measures
HasNewMeasures(measure_count, last) == measure_count > last

\* one pass of `for text in stream.text_stream` on the grown buffer
OnGrowth(text) ==
    LET partial_xml == _try_extract_partial_musicxml(text)
    IN  /\ accumulated_text' = text
        /\ IF partial_xml # NoText
              /\ HasNewMeasures(MeasureCount(partial_xml), last_rendered_measures)
           THEN /\ last_rendered_measures' = MeasureCount(partial_xml)
                /\ emitted' = partial_xml
                /\ out' = Append(out, Event("partial", MeasureCount(partial_xml),
                                            partial_xml))
           ELSE /\ emitted' = NoText
                /\ UNCHANGED <<last_rendered_measures, out>>

StreamText ==
    /\ pc = "stream"
    /\ \E text \in Grown(accumulated_text, faults) :
          /\ OnGrowth(text)
          /\ faults' = faults + FaultsIn(Completed(accumulated_text),
                           SubSeq(Completed(text),
                                  Len(Completed(accumulated_text)) + 1, Len(text)))
    /\ UNCHANGED <<conversation_history, pc, final_xml, editVars, validateVars,
                   callVars, sessionVars>>

\* an increment of no text
StreamEmptyText ==
    /\ pc = "stream"
    /\ OnGrowth(accumulated_text)
    /\ UNCHANGED <<conversation_history, pc, final_xml, faults, editVars,
                   validateVars,
                   callVars, sessionVars>>

\* Variant: generate() without its except clause, the failure ends the response
\* with no event.
StreamFailSilent ==
    /\ pc = "stream"
    /\ emitted' = NoText
    /\ pc' = "done"
    /\ UNCHANGED <<conversation_history, accumulated_text, last_rendered_measures,
                   out, final_xml, faults, editVars, validateVars,
                   callVars, sessionVars>>

\* the upstream source raises: chat_stream propagates, generate() reports it
StreamFail ==
    /\ pc = "stream"
    /\ out' = Append(out, Event("error", 0, NoText))
    /\ emitted' = NoText
    /\ pc' = "done"
    /\ UNCHANGED <<conversation_history, accumulated_text, last_rendered_measures,
                   final_xml, faults, editVars, validateVars,
                   callVars, sessionVars>>

\* the stream ends: chat_stream stores the reply and yields 'complete'
StreamEnd ==
    /\ pc = "stream"
    /\ conversation_history' = Append(conversation_history, "assistant")
    /\ emitted' = NoText
    /\ IF Truthy(_extract_musicxml(accumulated_text))
       THEN /\ final_xml' = _extract_musicxml(accumulated_text)
            /\ out' = Append(out, Event("engraving", 0, NoText))
            /\ pc' = "engrave"
       ELSE /\ final_xml' = NoText
            /\ out' = Append(out, Event("complete", 0, NoText))
            /\ pc' = "last"
    /\ UNCHANGED <<accumulated_text, last_rendered_measures, faults, editVars,
                   validateVars,
                   callVars, sessionVars>>

\* the engraving pass on the complete score
Engrave ==
    /\ pc = "engrave"
    /\ LET fixed == IF validate_musicxml(final_xml).ok THEN final_xml
                    ELSE quick_fix(final_xml)
       IN  /\ final_xml' = fixed
           /\ \E engraved_xml \in EngraveOutcomes(fixed) :
                 out' = Append(out, Event("complete", 0,
                            IF engraved_xml # NoText
                               /\ validate_musicxml(engraved_xml).ok
                            THEN engraved_xml ELSE fixed))
    /\ pc' = "last"
    /\ UNCHANGED <<conversation_history, accumulated_text, last_rendered_measures,
                   emitted, faults, editVars, validateVars,
                   callVars, sessionVars>>

\* yield "data: [DONE]"
Finish ==
    /\ pc = "last"
    /\ out' = Append(out, Event("[DONE]", 0, NoText))
    /\ pc' = "done"
    /\ UNCHANGED <<conversation_history, accumulated_text, last_rendered_measures,
                   emitted, final_xml, faults, editVars, validateVars,
                   callVars, sessionVars>>

StreamNext ==
    \/ ChatStreamBegin
    \/ StreamText
    \/ StreamEmptyText
    \/ StreamFail
    \/ StreamEnd
    \/ Engrave
    \/ Finish

(***************************************************************************)
(* The conversation history of the one ClaudeService over a sequence of    *)
(* calls: chat, chat_stream (to its end, to an upstream failure, or        *)
(* dropped by its consumer while suspended at a yield) and                 *)
(* reset_conversation.  The text of the replies plays no part in the roles *)
(* of the history, so the stream carries no text here.                     *)
(***************************************************************************)
MaxTurns == 6

ChatStreamCall == BeginStream(MaxTurns)

\* ClaudeService.chat: the user message is appended, then the upstream source
\* answers and the reply is appended, or it raises and nothing more is done
Chat ==
    /\ pc \in {"idle", "done"}
    /\ Len(conversation_history) < MaxTurns
    /\ \E answered \in BOOLEAN :
          conversation_history' =
              IF answered
              THEN conversation_history \o <<"user", "assistant">>
              ELSE Append(conversation_history, "user")
    /\ UNCHANGED <<accumulated_text, last_rendered_measures, pc, out, emitted,
                   final_xml, faults, editVars, validateVars, callVars,
                   sessionVars>>

\* the consumer drops the generator at a yield inside the stream: the code
\* behind the loop never runs
StreamAbandon ==
    /\ pc = "stream"
    /\ emitted' = NoText
    /\ pc' = "done"
    /\ UNCHANGED <<conversation_history, accumulated_text, last_rendered_measures,
                   out, final_xml, faults, editVars, validateVars, callVars,
                   sessionVars>>

\* ClaudeService.reset_conversation, between two calls
ResetConversation ==
    /\ pc \in {"idle", "done"}
    /\ conversation_history # <<>>
    /\ conversation_history' = <<>>
    /\ UNCHANGED <<accumulated_text, last_rendered_measures, pc, out, emitted,
                   final_xml, faults, editVars, validateVars, callVars,
                   sessionVars>>

HistoryNext ==
    \/ ChatStreamCall
    \/ StreamFail
    \/ StreamEnd
    \/ Finish
    \/ StreamAbandon
    \/ Chat
    \/ ResetConversation

(***************************************************************************)
(* The structural editor (merge_musicxml, extract_measures).  A parsed     *)
(* document is its part-list (the declared ids) and its parts in order; a  *)
(* part is its id and its measure elements.  A measure element is its      *)
(* number attribute (text) and, during an operation, the tree and place it *)
(* came from, which is the identity of the element object.                 *)
(***************************************************************************)
MaxBase == 8
MaxAdd == 3
MaxAt == 4
MaxRange == 6
MaxOps == 1

Digits == <<"0", "1", "2", "3", "4", "5", "6", "7", "8", "9">>

\* str(n) of an int
RECURSIVE StrNat(_)
StrNat(n) == IF n < 10 THEN <<Digits[n + 1]>>
             ELSE StrNat(n \div 10) \o <<Digits[(n % 10) + 1]>>
Str(n) == IF n < 0 THEN <<"-">> \o StrNat(-n) ELSE StrNat(n)

\* int(s) of a decimal numeral
DigitValue(c) == (CHOOSE d \in 1..10 : Digits[d] = c) - 1
RECURSIVE IntNat(_)
IntNat(s) == IF Len(s) = 1 THEN DigitValue(s[1])
             ELSE 10 * IntNat(SubSeq(s, 1, Len(s) - 1)) + DigitValue(s[Len(s)])
Int_(s) == IF Head(s) = "-" THEN -IntNat(Tail(s)) ELSE IntNat(s)

\* the text that does not parse
Malformed == [malformed |-> TRUE]
\* no document
NoDoc == [none |-> TRUE]
\* insert_at_measure: None, or an int
NoAt == <<>>
At(k) == <<k>>

Measure(number, src, pos) == [number |-> number, src |-> src, pos |-> pos]
Part(id, measures) == [id |-> id, measures |-> measures]

\* a score whose parts `ids` each hold n measures numbered 1..n
Score(ids, n) ==
    [partlist |-> ids,
     parts |-> [p \in 1..Len(ids) |-> Part(ids[p], [i \in 1..n |-> Str(i)])]]

\* etree.fromstring: the element objects of a text, each tagged with its origin
Parse(xml, src) ==
    [partlist |-> xml.partlist,
     parts |-> [p \in 1..Len(xml.parts) |->
        Part(xml.parts[p].id,
             [i \in 1..Len(xml.parts[p].measures) |->
                 Measure(xml.parts[p].measures[i], src, i)])]]

\* etree.tostring: only the number attributes reach the text
Serialize(root) ==
    [partlist |-> root.partlist,
     parts |-> [p \in 1..Len(root.parts) |->
        Part(root.parts[p].id,
             [i \in 1..Len(root.parts[p].measures) |->
                 root.parts[p].measures[i].number])]]

\* measure.set('number', s)
SetNumber(measure, s) == [measure EXCEPT !.number = s]

\* lxml _Element.insert(index, element): before the child at `index` (counted
\* from the end when negative), appended when there is no such child
Insert(children, index, element) ==
    LET n == Len(children)
        before == IF index >= 0 THEN index + 1 ELSE n + index + 1
    IN  IF before < 1 \/ before > n THEN Append(children, element)
        ELSE SubSeq(children, 1, before - 1) \o <<element>>
             \o SubSeq(children, before, n)

\* for i, measure in enumerate(new_measures): base_part.insert(insert_idx + i, measure)
RECURSIVE InsertAll(_, _, _, _)
InsertAll(children, insert_idx, new_measures, i) ==
    IF i >= Len(new_measures) THEN children
    ELSE InsertAll(Insert(children, insert_idx + i, new_measures[i + 1]),
                   insert_idx, new_measures, i + 1)

\* the first index of the Python slice lst[start:] of a list of n elements (0-based)
SliceStart(start, n) ==
    IF start < 0 THEN (IF start + n < 0 THEN 0 ELSE start + n)
    ELSE IF start > n THEN n ELSE start

\* Variant: numbering of appended measures starts at the count of the base.
StartNumAtCount(base_measures) == Len(base_measures)

\* start_num = len(base_measures) + 1
StartNum(base_measures) == Len(base_measures) + 1

\* Variant: the insertion index is the position itself.
InsertIdxAtPosition(insert_at_measure) == insert_at_measure

\* insert_idx = insert_at_measure - 1
InsertIdx(insert_at_measure) == insert_at_measure - 1

\* the body of `if base_part is not None` for one part
MergePart(base_measures, new_measures, insert_at_measure) ==
    IF insert_at_measure = NoAt
    THEN LET start_num == StartNum(base_measures)
         IN  base_measures \o
             [i \in 1..Len(new_measures) |->
                 SetNumber(new_measures[i], Str(start_num + (i - 1)))]
    ELSE LET at == insert_at_measure[1]
             numbered == [i \in 1..Len(new_measures) |->
                 SetNumber(new_measures[i], Str(at + (i - 1)))]
             inserted == InsertAll(base_measures, InsertIdx(at), numbered, 0)
             first == SliceStart(at - 1, Len(base_measures))
         IN  [c \in 1..Len(inserted) |->
                 IF inserted[c].src = "base" /\ inserted[c].pos > first
                 THEN SetNumber(inserted[c],
                         Str(at + Len(new_measures)
                             + (inserted[c].pos - first - 1)))
                 ELSE inserted[c]]

\* base_root.find(".//part[@id='...']"): the first part with that id, or 0
FindPart(parts, part_id) ==
    LET hits == {p \in 1..Len(parts) : parts[p].id = part_id}
    IN  IF hits = {} THEN 0 ELSE Min(hits)

\* Variant: a part of the addition that the base does not have is added to it.
RECURSIVE MergePartsAdding(_, _, _)
MergePartsAdding(base_parts, new_parts, insert_at_measure) ==
    IF new_parts = <<>> THEN base_parts
    ELSE LET new_part == Head(new_parts)
             b == FindPart(base_parts, new_part.id)
         IN  MergePartsAdding(
                 IF b = 0 THEN Append(base_parts, new_part)
                 ELSE [base_parts EXCEPT ![b].measures =
                          MergePart(base_parts[b].measures, new_part.measures,
                                    insert_at_measure)],
                 Tail(new_parts), insert_at_measure)

\* for new_part in new_root.findall('part')
RECURSIVE MergeParts(_, _, _)
MergeParts(base_parts, new_parts, insert_at_measure) ==
    IF new_parts = <<>> THEN base_parts
    ELSE LET new_part == Head(new_parts)
             b == FindPart(base_parts, new_part.id)
         IN  MergeParts(
                 IF b = 0 THEN base_parts
                 ELSE [base_parts EXCEPT ![b].measures =
                          MergePart(base_parts[b].measures, new_part.measures,
                                    insert_at_measure)],
                 Tail(new_parts), insert_at_measure)

Failure(what) == [error |-> what]
IsFailure(r) == "error" \in DOMAIN r

\* the tree that merge_musicxml serializes, or the ValueError it raises
merge_musicxml(base_xml, new_xml, insert_at_measure) ==
    IF base_xml = Malformed \/ new_xml = Malformed
    THEN Failure("Failed to merge MusicXML")
    ELSE LET base_root == Parse(base_xml, "base")
             new_root == Parse(new_xml, "new")
         IN  [base_root EXCEPT !.parts =
                 MergeParts(base_root.parts, new_root.parts, insert_at_measure)]

\* Variant: the measure numbered `end` is removed too.
RemovedToEnd(num, start, end) == num < start \/ num >= end

\* Variant: the measure numbered `start` is removed too.
RemovedFromStart(num, start, end) == num <= start \/ num > end

\* if num < start or num > end
Removed(num, start, end) == num < start \/ num > end

\* the body of `for part in root.findall('part')`
ExtractPart(measures, start, end) ==
    LET kept == SelectSeq(measures,
                    LAMBDA m : ~Removed(Int_(m.number), start, end))
    IN  [i \in 1..Len(kept) |-> SetNumber(kept[i], Str(i))]

\* the tree that extract_measures serializes, or the ValueError it raises
extract_measures(xml_string, start, end) ==
    IF xml_string = Malformed THEN Failure("Failed to extract measures")
    ELSE LET root == Parse(xml_string, "base")
         IN  [root EXCEPT !.parts =
                 [p \in 1..Len(root.parts) |->
                     Part(root.parts[p].id,
                          ExtractPart(root.parts[p].measures, start, end))]]

\* the documents and arguments the requests are drawn from
BaseIds == {<<"P1">>, <<"P1", "P2">>}
NewIds == {<<"P1">>, <<"P1", "P2">>, <<"P2", "P3">>}
BaseDocs == {Score(ids, n) : ids \in BaseIds, n \in 1..MaxBase}
NewDocs == {Score(ids, m) : ids \in NewIds, m \in 0..MaxAdd} \cup {Malformed}
AtValues == {NoAt} \cup {At(k) : k \in -1..MaxAt}
RangeValues == 0..MaxRange

NoEdit == [op |-> "none", count |-> 0, base |-> NoDoc, new |-> NoDoc, at |-> NoAt,
           start |-> 0, end |-> 0, mid |-> NoDoc, result |-> NoDoc]

EditInit ==
    /\ doc \in BaseDocs
    /\ edit = NoEdit

\* POST /score/merge on the current document
Merge ==
    /\ edit.count < MaxOps
    /\ \E new_xml \in NewDocs, insert_at_measure \in AtValues :
          LET result == merge_musicxml(doc, new_xml, insert_at_measure)
          IN  /\ edit' = [op |-> "merge", count |-> edit.count + 1, base |-> doc,
                          new |-> new_xml, at |-> insert_at_measure,
                          start |-> 0, end |-> 0, mid |-> NoDoc, result |-> result]
              /\ doc' = IF IsFailure(result) THEN doc ELSE Serialize(result)
    /\ UNCHANGED <<streamVars, validateVars,
                   callVars, sessionVars>>

\* POST /score/extract on the current document
Extract ==
    /\ edit.count < MaxOps
    /\ \E start \in RangeValues, end \in RangeValues :
          LET result == extract_measures(doc, start, end)
          IN  /\ edit' = [op |-> "extract", count |-> edit.count + 1, base |-> doc,
                          new |-> NoDoc, at |-> NoAt,
                          start |-> start, end |-> end, mid |-> NoDoc,
                          result |-> result]
              /\ doc' = IF IsFailure(result) THEN doc ELSE Serialize(result)
    /\ UNCHANGED <<streamVars, validateVars,
                   callVars, sessionVars>>

\* POST /score/extract on a text that does not parse
ExtractMalformed ==
    /\ edit.count < MaxOps
    /\ edit' = [op |-> "extract", count |-> edit.count + 1, base |-> Malformed,
                new |-> NoDoc, at |-> NoAt, start |-> 1, end |-> 1,
                mid |-> NoDoc, result |-> extract_measures(Malformed, 1, 1)]
    /\ UNCHANGED <<doc, streamVars, validateVars,
                   callVars, sessionVars>>

\* POST /score/merge with no position, then POST /score/extract on its answer:
\* of a document whose parts have n measures each and an addition whose parts
\* have m measures each, the measures n+1..n+m
MergeThenExtract ==
    /\ edit.count < MaxOps
    /\ \E new_xml \in NewDocs \ {Malformed} :
          LET n == Len(doc.parts[1].measures)
              m == Len(new_xml.parts[1].measures)
              merged == merge_musicxml(doc, new_xml, NoAt)
              result == extract_measures(Serialize(merged), n + 1, n + m)
          IN  /\ \A p \in 1..Len(doc.parts) : Len(doc.parts[p].measures) = n
              /\ edit' = [op |-> "merge-extract", count |-> edit.count + 1,
                          base |-> doc, new |-> new_xml, at |-> NoAt,
                          start |-> n + 1, end |-> n + m, mid |-> merged,
                          result |-> result]
              /\ doc' = Serialize(result)
    /\ UNCHANGED <<streamVars, validateVars,
                   callVars, sessionVars>>

EditNext == Merge \/ Extract \/ ExtractMalformed \/ MergeThenExtract

(***************************************************************************)
(* POST /validate: validate_musicxml on the text of a document.  The       *)
(* documents are described by their structure and written out as text.    *)
(***************************************************************************)
MaxVParts == 2
MaxVMeasures == 2

RootTags == {"score-partwise", "score-timewise", "opus"}
VPartKinds == [id : {"P1", "P2", NoId}, n : 0..MaxVMeasures]
VDocs ==
    [root : RootTags,
     partlist : {"child", "nested", "absent"},
     parts : UNION {[1..k -> VPartKinds] : k \in 0..MaxVParts},
     closed : BOOLEAN]

RECURSIVE Flatten(_)
Flatten(ss) == IF ss = <<>> THEN <<>> ELSE Head(ss) \o Flatten(Tail(ss))

PartText(part) ==
    <<PartOpen(part.id)>>
    \o Flatten([i \in 1..part.n |-> <<MeasOpen, MeasClose>>])
    \o <<PartClose>>

\* the text of the document d; the root is left open when d.closed is false
TextOf(d) ==
    <<XmlDecl, Open(d.root, NoId)>>
    \o (CASE d.partlist = "child" -> <<PlOpen, PlClose>>
          [] d.partlist = "nested" ->
                 <<Open("defaults", NoId), PlOpen, PlClose, Close("defaults")>>
          [] OTHER -> <<>>)
    \o Flatten([p \in 1..Len(d.parts) |-> PartText(d.parts[p])])
    \o (IF d.closed THEN <<Close(d.root)>> ELSE <<>>)

Pending == [ok |-> FALSE, err |-> "pending", arg |-> None]

ValidateInit ==
    /\ vdoc \in VDocs
    /\ vresult = Pending

Validate ==
    /\ vresult = Pending
    /\ vresult' = validate_musicxml(TextOf(vdoc))
    /\ UNCHANGED <<vdoc, streamVars, editVars, callVars, sessionVars>>

ValidateNext == Validate

(***************************************************************************)
(* The translation table fifths_to_key.  A call is the function called     *)
(* with its arguments; what it returns is a value, or the exception it     *)
(* raises.                                                                 *)
(***************************************************************************)
NoCall == [fn |-> "none"]
NoRet == [pending |-> TRUE]
Returned(value) == [value |-> value]
Raised(exception) == [raised |-> exception]

major_keys == <<"C", "G", "D", "A", "E", "B", "F#", "C#",
                "F", "Bb", "Eb", "Ab", "Db", "Gb", "Cb">>
minor_keys == <<"a", "e", "b", "f#", "c#", "g#", "d#", "a#",
                "d", "g", "c", "f", "bb", "eb", "ab">>

\* keys[index] of a Python list, for index >= 0
ListItem(keys, index) ==
    IF index < Len(keys) THEN Returned(keys[index + 1]) ELSE Raised("IndexError")

Abs(n) == IF n < 0 THEN -n ELSE n

fifths_to_key(fifths, mode) ==
    LET keys == IF mode = "major" THEN major_keys ELSE minor_keys
    IN  IF fifths >= 0
        THEN (IF fifths < 8 THEN ListItem(keys, fifths) ELSE ListItem(keys, 0))
        ELSE (IF Abs(fifths) < 8 THEN ListItem(keys, 8 + Abs(fifths))
              ELSE ListItem(keys, 8))

MaxFifths == 8
Modes == {"major", "minor", "dorian"}
FifthsCalls ==
    {[fn |-> "fifths_to_key", fifths |-> f, mode |-> m] :
        f \in (-MaxFifths)..MaxFifths, m \in Modes}

CallFifthsToKey ==
    /\ call.fn = "fifths_to_key"
    /\ ret = NoRet
    /\ ret' = fifths_to_key(call.fifths, call.mode)
    /\ UNCHANGED <<call, streamVars, editVars, validateVars, sessionVars>>

(***************************************************************************)
(* The template builder create_empty_score.  `parts` is None or the list   *)
(* of the ids of the part definitions.                                     *)
(***************************************************************************)
MaxMeasures == 3
MaxBeats == 2

NoParts == [given |-> FALSE, ids |-> <<>>]
Parts(ids) == [given |-> TRUE, ids |-> ids]

\* one <tag .../> element
Element(tag, id) == <<Open(tag, id), Close(tag)>>

\* the body of `for m in range(1, measures + 1)` for measure m
EmptyMeasure(m, part_idx, beats) ==
    <<MeasOpen>>
    \o (IF m = 1
        THEN Element("attributes", NoId)
             \o (IF part_idx = 0 THEN Element("direction", NoId) ELSE <<>>)
        ELSE <<>>)
    \o Flatten([b \in 1..beats |-> Element("note", NoId)])
    \o <<MeasClose>>

create_empty_score(composer, parts, beats, measures) ==
    LET ids == IF ~parts.given THEN <<"P1">> ELSE parts.ids
    IN  <<XmlDecl, Doctype, RootOpen>>
        \o Element("work", NoId)
        \o (IF composer # "" THEN Element("identification", NoId) ELSE <<>>)
        \o <<PlOpen>>
        \o Flatten([p \in 1..Len(ids) |-> Element("score-part", ids[p])])
        \o <<PlClose>>
        \o Flatten([p \in 1..Len(ids) |->
               <<PartOpen(ids[p])>>
               \o Flatten([m \in 1..measures |-> EmptyMeasure(m, p - 1, beats)])
               \o <<PartClose>>])
        \o <<RootClose>>

BuilderCalls ==
    {[fn |-> "create_empty_score", composer |-> c, parts |-> ps, beats |-> b,
      measures |-> n] :
        c \in {"", "Anon"},
        ps \in {NoParts, Parts(<<>>), Parts(<<"P1">>), Parts(<<"P1", "P2">>)},
        b \in 0..MaxBeats,
        n \in -1..MaxMeasures}

CallCreateEmptyScore ==
    /\ call.fn = "create_empty_score"
    /\ ret = NoRet
    /\ ret' = Returned(create_empty_score(call.composer, call.parts, call.beats,
                                          call.measures))
    /\ UNCHANGED <<call, streamVars, editVars, validateVars, sessionVars>>

(***************************************************************************)
(* The reconstructor called on a buffer: any short text, or a score        *)
(* document cut at any place.                                              *)
(***************************************************************************)
MaxBuf == 5

BufAlphabet ==
    {RootOpen, PlOpen, PlClose, PartOpen("P1"), PartClose, MeasOpen, MeasClose}
ShortBuffers == UNION {[1..n -> BufAlphabet] : n \in 0..MaxBuf}

ScoreDocs ==
    [root : {"score-partwise"},
     partlist : {"child"},
     parts : UNION {[1..k -> VPartKinds] : k \in 1..MaxVParts},
     closed : {TRUE}]

\* the document cut after k tokens, or inside the open tag that is its k-th token
Cuts(text) ==
    {SubSeq(text, 1, k) : k \in 1..Len(text)}
    \cup {CutLast(SubSeq(text, 1, k)) : k \in {j \in 1..Len(text) : IsOpen(text[j])}}
CutBuffers == UNION {Cuts(TextOf(d)) : d \in ScoreDocs}

ReconstructCalls ==
    {[fn |-> "_try_extract_partial_musicxml", text |-> t] :
        t \in ShortBuffers \cup CutBuffers}

CallReconstruct ==
    /\ call.fn = "_try_extract_partial_musicxml"
    /\ ret = NoRet
    /\ ret' = Returned(_try_extract_partial_musicxml(call.text))
    /\ UNCHANGED <<call, streamVars, editVars, validateVars, sessionVars>>

CallInit ==
    /\ call \in FifthsCalls \cup BuilderCalls \cup ReconstructCalls
    /\ ret = NoRet

CallNext == CallFifthsToKey \/ CallCreateEmptyScore \/ CallReconstruct

(***************************************************************************)
(* Concurrent /chat/stream requests.  Every request runs generate() and    *)
(* chat_stream on the one ClaudeService of the module: accumulated_text    *)
(* and last_rendered_measures are locals of each chat_stream call,         *)
(* conversation_history is the field of the shared object.  A request is   *)
(* suspended at each event it yields, and only there can another request   *)
(* run: the event loop runs one request at a time.                         *)
(***************************************************************************)
MaxSessions == 2

Sessions == 1..MaxSessions

\* the replies of the upstream source: a score of one part and n measures
Reply(n) ==
    <<RootOpen, PlOpen, PlClose, PartOpen("P1")>>
    \o Flatten([i \in 1..n |-> <<MeasOpen, MeasClose>>])
    \o <<PartClose, RootClose>>

\* a reply whose first measure is closed late: two measures stand inside it
NestedReply ==
    <<RootOpen, PlOpen, PlClose, PartOpen("P1"),
      MeasOpen, MeasOpen, MeasClose, MeasOpen, MeasClose, MeasClose,
      PartClose, RootClose>>

Replies == {Reply(1), NestedReply}

NoSession ==
    [pc |-> "idle", reply |-> <<>>, accumulated_text |-> <<>>,
     last_rendered_measures |-> 0, partials |-> <<>>, messages |-> {},
     appended |-> {}, running |-> FALSE]

\* the request s can take a step: no other request is between two yields
CanRun(s) == \A t \in Sessions \ {s} : ~session[t].running

SessionInit == session = [s \in Sessions |-> NoSession]

\* the request arrives: the user message is appended to the shared history and
\* the history is sent to the upstream source
SessionBegin(s) ==
    /\ session[s].pc = "idle"
    /\ CanRun(s)
    /\ conversation_history' = Append(conversation_history, "user")
    /\ \E reply \in Replies :
          session' = [session EXCEPT ![s] =
              [NoSession EXCEPT
                  !.pc = "stream",
                  !.running = TRUE,
                  !.reply = reply,
                  !.messages = 1..(Len(conversation_history) + 1),
                  !.appended = {Len(conversation_history) + 1}]]
    /\ UNCHANGED <<accumulated_text, last_rendered_measures, pc, out, emitted,
                   final_xml, faults, editVars, validateVars, callVars>>

\* one pass of `for text in stream.text_stream` of the request s
SessionText(s) ==
    /\ session[s].pc = "stream"
    /\ CanRun(s)
    /\ \E k \in 1..MaxChunk :
          LET me == session[s]
              text == SubSeq(me.reply, 1, Len(me.accumulated_text) + k)
              partial_xml == _try_extract_partial_musicxml(text)
              yields == /\ partial_xml # NoText
                        /\ HasNewMeasures(MeasureCount(partial_xml),
                                          me.last_rendered_measures)
          IN  /\ Len(me.accumulated_text) + k <= Len(me.reply)
              /\ session' = [session EXCEPT ![s] =
                    [me EXCEPT
                        !.accumulated_text = text,
                        \* a 'partial' or a 'text' event is yielded, or nothing
                        !.running = partial_xml # NoText /\ ~yields,
                        !.last_rendered_measures =
                            IF yields THEN MeasureCount(partial_xml) ELSE @,
                        !.partials =
                            IF yields THEN Append(@, MeasureCount(partial_xml))
                            ELSE @]]
    /\ UNCHANGED <<streamVars, editVars, validateVars, callVars>>

\* the stream of the request s ends: its reply is appended to the shared history
SessionEnd(s) ==
    /\ session[s].pc = "stream"
    /\ CanRun(s)
    /\ session[s].accumulated_text = session[s].reply
    /\ conversation_history' = Append(conversation_history, "assistant")
    /\ session' = [session EXCEPT ![s] =
          [@ EXCEPT !.pc = "done",
                    !.running = FALSE,
                    !.appended = @ \cup {Len(conversation_history) + 1}]]
    /\ UNCHANGED <<accumulated_text, last_rendered_measures, pc, out, emitted,
                   final_xml, faults, editVars, validateVars, callVars>>

SessionNext ==
    \E s \in Sessions : SessionBegin(s) \/ SessionText(s) \/ SessionEnd(s)

(***************************************************************************)
(* Specifications: one per component; the other components stand still.   *)
(***************************************************************************)
EditIdle == doc = NoDoc /\ edit = NoEdit
ValidateIdle == vdoc = NoDoc /\ vresult = Pending
CallIdle == call = NoCall /\ ret = NoRet
SessionIdle == session = <<>>

Init == StreamInit /\ EditIdle /\ ValidateIdle /\ CallIdle /\ SessionIdle
Next == StreamNext
Spec == Init /\ [][Next]_vars

InitEdit == StreamInit /\ EditInit /\ ValidateIdle /\ CallIdle /\ SessionIdle
SpecEdit == InitEdit /\ [][EditNext]_vars

InitValidate == StreamInit /\ EditIdle /\ ValidateInit /\ CallIdle /\ SessionIdle
SpecValidate == InitValidate /\ [][ValidateNext]_vars

InitSessions == StreamInit /\ EditIdle /\ ValidateIdle /\ CallIdle /\ SessionInit
SpecSessions == InitSessions /\ [][SessionNext]_vars

InitHistory == StreamInit /\ EditIdle /\ ValidateIdle /\ CallIdle /\ SessionIdle
SpecHistory == InitHistory /\ [][HistoryNext]_vars

InitCall == StreamInit /\ EditIdle /\ ValidateIdle /\ CallInit /\ SessionIdle
SpecCall == InitCall /\ [][CallNext]_vars

(***************************************************************************)
(* Properties of the streaming reconstructor and of the stream endpoint.   *)
(***************************************************************************)
IsPartial(e) == e.type = "partial"
IsComplete(e) == e.type = "complete"
IsTerminal(e) == e.type \in {"complete", "error"}

\* C1: the validator accepts every snapshot the reconstructor returns, for
\* every buffer.
C1_ValidatorAcceptsEverySnapshot ==
    emitted # NoText => validate_musicxml(emitted) = Valid

\* C2: within one session the measure counts of successive partial events
\* strictly increase, and a growth event that leaves the buffer unchanged
\* delivers nothing.
C2_PartialsIncrease ==
    \A i, j \in 1..Len(out) :
        (i < j /\ IsPartial(out[i]) /\ IsPartial(out[j]))
            => out[i].measures < out[j].measures

C2_StrictlyIncreasing ==
    /\ [](C2_PartialsIncrease)
    /\ [][(pc = "stream" /\ pc' = "stream" /\ accumulated_text' = accumulated_text)
            => out' = out]_vars

C2_Witness ==
    /\ Count(out, IsPartial) >= 2
    /\ pc = "stream"

\* C3: a snapshot is the declaration, the buffer from the root open tag to
\* the last measure close tag of the buffer, then part close tags and the
\* root close tag: nothing that follows the last measure close tag of the
\* buffer is in it.
C3_SnapshotEndsAtLastMeasure ==
    emitted # NoText =>
        LET text == accumulated_text
            r == Min({i \in 1..Len(text) : text[i] = RootOpen})
            l == Max({i \in 1..Len(text) : text[i] = MeasClose})
            n == Len(emitted)
        IN  /\ r < l
            /\ n >= (l - r + 1) + 2
            /\ emitted[1] = XmlDecl
            /\ SubSeq(emitted, 2, l - r + 2) = SubSeq(text, r, l)
            /\ \A i \in (l - r + 3)..(n - 1) : emitted[i] = PartClose
            /\ emitted[n] = RootClose

\* measure 1 complete in part P1, measure 2 only opened
C3_Witness ==
    /\ accumulated_text =
          <<RootOpen, PlOpen, PlClose, PartOpen("P1"), MeasOpen, MeasClose, MeasOpen>>
    /\ emitted =
          <<XmlDecl, RootOpen, PlOpen, PlClose, PartOpen("P1"), MeasOpen, MeasClose,
            PartClose, RootClose>>

\* C4 as stated: partial events, then exactly one 'complete' event for every
\* request, also when the upstream source fails.
C4_OneCompleteAlways ==
    /\ \A i, j \in 1..Len(out) :
          (i < j /\ IsComplete(out[i])) => ~IsPartial(out[j])
    /\ Count(out, IsComplete) <= 1
    /\ pc = "done" => Count(out, IsComplete) = 1

\* C4, amended: partial events, then exactly one terminal event for a
\* request that runs to its end: 'complete' (a validated document, the
\* fallback document or no document) when the stream ended, 'error' and no
\* 'complete' when the upstream source failed.
C4_OneTerminal ==
    /\ \A i, j \in 1..Len(out) :
          (i < j /\ IsTerminal(out[i])) => ~IsPartial(out[j])
    /\ Count(out, IsTerminal) <= 1
    /\ pc = "done" =>
          /\ Count(out, IsTerminal) = 1
          /\ Count(out, IsComplete) = 1
                <=> conversation_history[Len(conversation_history)] = "assistant"
    /\ \A i \in 1..Len(out) :
          IsComplete(out[i]) =>
              \/ out[i].musicxml = NoText
              \/ out[i].musicxml = final_xml
              \/ validate_musicxml(out[i].musicxml).ok

C4_Witness ==
    /\ pc = "done"
    /\ Count(out, IsPartial) >= 1
    /\ \E i \in 1..Len(out) :
          /\ IsComplete(out[i])
          /\ out[i].musicxml # NoText
          /\ validate_musicxml(out[i].musicxml).ok

(***************************************************************************)
(* Properties of the validator.                                            *)
(***************************************************************************)
\* the result the five checks, taken in order, give for the document d
FirstFailedCheck(d) ==
    LET empty == {p \in 1..Len(d.parts) : d.parts[p].n = 0}
    IN  IF ~d.closed THEN Invalid(ErrSyntax, None)
        ELSE IF d.root \notin {"score-partwise", "score-timewise"}
             THEN Invalid(ErrRoot, d.root)
        ELSE IF d.partlist # "child" THEN Invalid(ErrPartList, None)
        ELSE IF Len(d.parts) = 0 THEN Invalid(ErrNoParts, None)
        ELSE IF empty # {}
             THEN Invalid(ErrNoMeasures,
                          IF d.parts[Min(empty)].id = NoId THEN "unknown"
                          ELSE d.parts[Min(empty)].id)
        ELSE Valid

\* C5: validate_musicxml returns the reason of the first of its five checks
\* that fails, in the order parse, root, part-list, parts, measures, and
\* (True, None) exactly when all five hold.
C5_FirstFailedCheck ==
    vresult # Pending => vresult = FirstFailedCheck(vdoc)

\* a document with a part-list and no part
C5_Witness ==
    /\ vdoc.closed /\ vdoc.root = "score-partwise"
    /\ vdoc.partlist = "child" /\ vdoc.parts = <<>>
    /\ vresult = Invalid(ErrNoParts, None)

(***************************************************************************)
(* Properties of the structural editor.  They are stated on the last       *)
(* operation: edit.base and edit.new are its arguments, edit.result the    *)
(* tree it serialized.                                                     *)
(***************************************************************************)
\* the measure numbers are 1..n in order
Numbered(numbers) == numbers = [i \in 1..Len(numbers) |-> Str(i)]

IsMerge == edit.op = "merge" /\ ~IsFailure(edit.result)
IsExtract == edit.op = "extract" /\ ~IsFailure(edit.result)

\* the places of the base parts whose id is also the id of a part of the addition
Shared == {b \in 1..Len(edit.base.parts) :
              /\ FindPart(edit.base.parts, edit.base.parts[b].id) = b
              /\ FindPart(edit.new.parts, edit.base.parts[b].id) # 0}
Old(b) == edit.base.parts[b].measures
Added(b) == edit.new.parts[FindPart(edit.new.parts, edit.base.parts[b].id)].measures
Got(b) == edit.result.parts[b].measures

\* C6: merge_musicxml with a splice position `at` that is a position of the
\* part (1..n+1, the part numbered 1..n): the m added measures are at places
\* at..at+m-1 with those numbers, the base measures numbered below at keep
\* place and number, the base measures numbered k >= at follow in their order,
\* renumbered k+m.
C6_Splice ==
    (IsMerge /\ edit.at # NoAt) =>
        \A b \in Shared :
            LET n == Len(Old(b))
                m == Len(Added(b))
                at == edit.at[1]
            IN  (Numbered(Old(b)) /\ at \in 1..(n + 1)) =>
                    Got(b) = [i \in 1..(n + m) |->
                        IF i < at THEN Measure(Old(b)[i], "base", i)
                        ELSE IF i < at + m THEN Measure(Str(i), "new", i - at + 1)
                        ELSE Measure(Str(Int_(Old(b)[i - m]) + m), "base", i - m)]

\* a 2-measure base, a 3-measure addition, at = 2: the addition is measures
\* 2-4 and the second base measure is measure 5
C6_Witness ==
    /\ IsMerge /\ edit.at = At(2)
    /\ edit.base = Score(<<"P1">>, 2) /\ edit.new = Score(<<"P1">>, 3)
    /\ doc = Score(<<"P1">>, 5)
    /\ Got(1)[2] = Measure(Str(2), "new", 1)
    /\ Got(1)[4] = Measure(Str(4), "new", 3)
    /\ Got(1)[5] = Measure(Str(5), "base", 2)

\* C7: merge_musicxml with no splice position: in each shared part the n base
\* measures are unchanged and the m added measures follow in their order,
\* numbered n+1..n+m.
C7_Append ==
    (IsMerge /\ edit.at = NoAt) =>
        \A b \in Shared :
            LET n == Len(Old(b))
                m == Len(Added(b))
            IN  Got(b) = [i \in 1..(n + m) |->
                    IF i <= n THEN Measure(Old(b)[i], "base", i)
                    ELSE Measure(Str(i), "new", i - n)]

C7_Witness ==
    /\ IsMerge /\ edit.at = NoAt
    /\ Shared = {2}
    /\ Len(Old(2)) >= 2 /\ Len(Added(2)) >= 2
    /\ Len(Got(2)) = Len(Old(2)) + Len(Added(2))

\* C8: after any sequence of merges and extractions, the measure numbers of
\* every part of the document are 1..n in order.
C8_ContiguousNumbering ==
    \A p \in 1..Len(doc.parts) : Numbered(doc.parts[p].measures)

\* C9: extract_measures(source, start, end): in every part exactly the
\* measures numbered within start..end survive, in their order, renumbered
\* from 1.
C9_Excerpt ==
    IsExtract =>
        \A p \in 1..Len(edit.base.parts) :
            LET old == edit.base.parts[p].measures
                got == edit.result.parts[p].measures
                within == {i \in 1..Len(old) :
                              edit.start <= Int_(old[i]) /\ Int_(old[i]) <= edit.end}
            IN  /\ Len(got) = Cardinality(within)
                /\ {got[j].pos : j \in 1..Len(got)} = within
                /\ \A j \in 1..Len(got) :
                      /\ got[j].src = "base"
                      /\ got[j].number = Str(j)
                      /\ \A k \in 1..Len(got) : j < k => got[j].pos < got[k].pos

\* an 8-measure document excerpted with (3, 5): 3 measures numbered 1-3
C9_Witness ==
    /\ IsExtract /\ edit.start = 3 /\ edit.end = 5
    /\ edit.base = Score(<<"P1", "P2">>, 8)
    /\ doc = Score(<<"P1", "P2">>, 3)
    /\ Got(1)[1].pos = 3 /\ Got(1)[3].pos = 5

\* C10: extract_measures fails when start > end and when a part of the
\* result would have no measure; it returns no document with an empty part.
C10_ExtractFails ==
    (edit.op = "extract" /\ edit.base # Malformed) =>
        LET leftEmpty == \E p \in 1..Len(edit.base.parts) :
                \A i \in 1..Len(edit.base.parts[p].measures) :
                    LET num == Int_(edit.base.parts[p].measures[i])
                    IN  num < edit.start \/ num > edit.end
        IN  /\ (edit.start > edit.end \/ leftEmpty) => IsFailure(edit.result)
            /\ ~IsFailure(edit.result) =>
                  \A p \in 1..Len(edit.result.parts) :
                      edit.result.parts[p].measures # <<>>

\* the text of a document of the editor, as the validator reads it
ScoreText(d) ==
    IF d = Malformed THEN <<XmlDecl, RootOpen>>
    ELSE <<XmlDecl, RootOpen, PlOpen, PlClose>>
         \o Flatten([p \in 1..Len(d.parts) |->
                <<PartOpen(d.parts[p].id)>>
                \o Flatten([i \in 1..Len(d.parts[p].measures) |->
                       <<MeasOpen, MeasClose>>])
                \o <<PartClose>>])
         \o <<RootClose>>

\* C11: merge_musicxml reports a failure, and gives no merged document, when
\* the base or the addition does not pass validate_musicxml.
C11_MergeValidates ==
    (edit.op = "merge"
        /\ (~validate_musicxml(ScoreText(edit.base)).ok
            \/ ~validate_musicxml(ScoreText(edit.new)).ok))
        => IsFailure(edit.result)

\* C12: merge_musicxml with a splice position below 1, or above n+1 for a
\* base part of n measures, gives an error and no merged document.
C12_SplicePositionChecked ==
    (edit.op = "merge" /\ edit.at # NoAt /\ edit.new # Malformed
        /\ \E b \in Shared : edit.at[1] \notin 1..(Len(Old(b)) + 1))
        => IsFailure(edit.result)

\* C13: the result of a merge or of an extraction has the part-list of the
\* base and the same part ids in the same order; a part that only the
\* addition has is not in the result.
C13_PartsUntouched ==
    (IsMerge \/ IsExtract) =>
        /\ edit.result.partlist = edit.base.partlist
        /\ [p \in 1..Len(edit.result.parts) |-> edit.result.parts[p].id]
              = [p \in 1..Len(edit.base.parts) |-> edit.base.parts[p].id]
        /\ doc.partlist = edit.base.partlist

\* a merge whose addition has a part the base does not have
C13_Witness ==
    /\ IsMerge
    /\ edit.base.partlist = <<"P1", "P2">>
    /\ edit.new.partlist = <<"P2", "P3">>
    /\ Len(edit.new.parts[2].measures) > 0
    /\ [p \in 1..Len(doc.parts) |-> doc.parts[p].id] = <<"P1", "P2">>
    /\ Len(doc.parts[2].measures) > Len(edit.base.parts[2].measures)

\* C14: for a base whose parts have n measures and an addition whose parts
\* have m measures, extracting n+1..n+m from the appending merge leaves in
\* every part exactly the measures that the addition has for that part (none
\* for a part the addition does not have), in their order, numbered 1..m.
C14_MergeThenExcerpt ==
    (edit.op = "merge-extract"
        /\ \A p \in 1..Len(edit.base.parts) : Numbered(edit.base.parts[p].measures))
        => \A b \in 1..Len(edit.base.parts) :
              LET got == edit.result.parts[b].measures
                  from == [i \in 1..Len(got) |->
                              edit.mid.parts[b].measures[got[i].pos]]
              IN  /\ Len(got) = IF b \in Shared THEN Len(Added(b)) ELSE 0
                  /\ \A i \in 1..Len(got) :
                        /\ got[i].number = Str(i)
                        /\ from[i].src = "new"
                        /\ from[i].pos = i

C14_Witness ==
    /\ edit.op = "merge-extract"
    /\ edit.base = Score(<<"P1", "P2">>, 2)
    /\ edit.new = Score(<<"P1", "P2">>, 3)
    /\ edit.start = 3 /\ edit.end = 5
    /\ doc = Score(<<"P1", "P2">>, 3)

(***************************************************************************)
(* Properties of the translation tables and of the template builder.       *)
(***************************************************************************)
\* the key with `fifths` sharps (flats when negative), by the circle of fifths
SharpKeys == <<"C", "G", "D", "A", "E", "B", "F#", "C#">>
FlatKeys == <<"C", "F", "Bb", "Eb", "Ab", "Db", "Gb", "Cb">>
SharpMinorKeys == <<"a", "e", "b", "f#", "c#", "g#", "d#", "a#">>
FlatMinorKeys == <<"a", "d", "g", "c", "f", "bb", "eb", "ab">>
KeyAt(fifths, mode) ==
    IF mode = "major"
    THEN (IF fifths >= 0 THEN SharpKeys[fifths + 1] ELSE FlatKeys[1 - fifths])
    ELSE (IF fifths >= 0 THEN SharpMinorKeys[fifths + 1]
          ELSE FlatMinorKeys[1 - fifths])

\* C15: for every fifths value in -7..7 and both modes, fifths_to_key returns
\* the key at that distance on the circle of fifths and does not fail.
C15_KeyOfFifths ==
    (call.fn = "fifths_to_key" /\ ret # NoRet
        /\ call.fifths \in -7..7 /\ call.mode \in {"major", "minor"})
        => ret = Returned(KeyAt(call.fifths, call.mode))

\* C16: the document create_empty_score returns passes validate_musicxml,
\* for every part list and every measure count.
C16_TemplateValidates ==
    (call.fn = "create_empty_score" /\ ret # NoRet)
        => validate_musicxml(ret.value) = Valid

(***************************************************************************)
(* Properties of concurrent sessions.                                      *)
(***************************************************************************)
\* C17: two sessions whose increments interleave share no mutable state: the
\* buffer and the watermark of each are its own, and the conversation a
\* session reads and appends to is not read or modified by the other.
C17_SessionsIsolated ==
    \A s \in Sessions : \A t \in Sessions \ {s} :
        LET me == session[s]
            other == session[t]
        IN  /\ me.accumulated_text = SubSeq(me.reply, 1, Len(me.accumulated_text))
            /\ me.last_rendered_measures <= MeasureCount(me.accumulated_text)
            /\ (me.pc = "stream" /\ other.pc = "stream") =>
                  \* the history sent upstream holds no message of the other
                  /\ me.messages \cap other.appended = {}
                  \* the other appends nothing behind the user message of s
                  /\ \A i \in other.appended : \A j \in me.appended : i < j

(***************************************************************************)
(* Properties of the reconstructor called on a buffer.                     *)
(***************************************************************************)
IsReconstructed ==
    /\ call.fn = "_try_extract_partial_musicxml"
    /\ ret # NoRet
    /\ ret.value # NoText

\* C18: the reconstructor returns a snapshot only when the buffer holds the
\* root open tag, inside the root a part-list open tag followed by its close
\* tag, and a measure close tag; every snapshot has a complete part-list.
C18_NeedsCompletePartList ==
    IsReconstructed =>
        LET text == call.text
            roots == {i \in 1..Len(text) : text[i] = RootOpen}
        IN  /\ roots # {}
            /\ \E i, j \in (Min(roots) + 1)..Len(text) :
                  i < j /\ text[i] = PlOpen /\ text[j] = PlClose
            /\ \E i \in 1..Len(text) : text[i] = MeasClose
            /\ \E i, j \in 1..Len(ret.value) :
                  i < j /\ ret.value[i] = PlOpen /\ ret.value[j] = PlClose

\* C20: the part close tags appended to the truncated slice number the part
\* open tags of the slice minus its part close tags (none when that is not
\* positive), and the root close tag follows them.  For a score document cut
\* anywhere behind its first measure close tag a snapshot is returned, and in
\* it every part that is opened is closed once.
C20_SyntheticPartClosers ==
    /\ IsReconstructed =>
        LET text == call.text
            r == Min({i \in 1..Len(text) : text[i] = RootOpen})
            l == Max({i \in 1..Len(text) : text[i] = MeasClose})
            slice == SubSeq(text, r, l)
            opened == Cardinality({i \in 1..Len(slice) :
                          IsOpen(slice[i]) /\ slice[i].t = "part"})
            closed == Cardinality({i \in 1..Len(slice) : slice[i] = PartClose})
            n == Len(ret.value)
        IN  /\ n - 2 - Len(slice) = IF opened > closed THEN opened - closed ELSE 0
            /\ \A i \in (Len(slice) + 2)..(n - 1) : ret.value[i] = PartClose
            /\ ret.value[n] = RootClose
            /\ Cardinality({i \in 1..n : IsOpen(ret.value[i]) /\ ret.value[i].t = "part"})
                  = Cardinality({i \in 1..n : ret.value[i] = PartClose})
    /\ (call.fn = "_try_extract_partial_musicxml" /\ ret # NoRet
          /\ call.text \in CutBuffers
          /\ \E i \in 1..Len(call.text) : call.text[i] = MeasClose)
          => ret.value # NoText

\* the first part complete, the second part cut in its second measure
C20_Witness ==
    /\ IsReconstructed
    /\ call.text =
          <<XmlDecl, RootOpen, PlOpen, PlClose,
            PartOpen("P1"), MeasOpen, MeasClose, PartClose,
            PartOpen("P2"), MeasOpen, MeasClose, MeasOpen>>
    /\ ret.value =
          <<XmlDecl, RootOpen, PlOpen, PlClose,
            PartOpen("P1"), MeasOpen, MeasClose, PartClose,
            PartOpen("P2"), MeasOpen, MeasClose, PartClose, RootClose>>

\* the text synthesized from the buffer fails to parse
SynthesisFails(text) == Synthesizes(text) /\ ~WellFormed(Synthesized(text))

\* C19: a growth event whose synthesized text fails to parse yields no partial
\* snapshot, leaves the watermark unchanged and leaves the request in its
\* stream; a growth event whose synthesized text parses and has more measures
\* than the watermark yields a partial snapshot of that many measures, also
\* after such a failure.
C19_ParseFailureSwallowed ==
    [][\A s \in Sessions :
          LET me == session[s]
              text == session'[s].accumulated_text
          IN  (me.pc = "stream" /\ text # me.accumulated_text) =>
                /\ SynthesisFails(text) =>
                      /\ session'[s].partials = me.partials
                      /\ session'[s].last_rendered_measures = me.last_rendered_measures
                      /\ session'[s].pc = "stream"
                /\ (/\ Synthesizes(text)
                    /\ WellFormed(Synthesized(text))
                    /\ MeasureCount(Synthesized(text)) > me.last_rendered_measures) =>
                      /\ session'[s].partials =
                            Append(me.partials, MeasureCount(Synthesized(text)))
                      /\ session'[s].last_rendered_measures =
                            MeasureCount(Synthesized(text))]_vars

\* the request has passed the buffers of NestedReply that end in its inner
\* measures, whose synthesized text fails to parse, and has then yielded the
\* snapshot of three measures
C19_Witness ==
    \E s \in Sessions :
        /\ session[s].pc = "stream"
        /\ session[s].reply = NestedReply
        /\ \A n \in 7..9 : SynthesisFails(SubSeq(NestedReply, 1, n))
        /\ session[s].accumulated_text = SubSeq(NestedReply, 1, 10)
        /\ session[s].partials = <<3>>
        /\ session[s].last_rendered_measures = 3

\* every part of the document has the same number of measures
Aligned(d) ==
    \A p, q \in 1..Len(d.parts) :
        Len(d.parts[p].measures) = Len(d.parts[q].measures)

\* C21: when every part of the input document has the same number of
\* measures, every part of the document that merge_musicxml returns, for any
\* addition, and every part of the document that extract_measures returns has
\* the same number of measures.
C21_AlignmentPreserved ==
    ((IsMerge \/ IsExtract) /\ Aligned(edit.base)) => Aligned(edit.result)

\* C22: after any sequence of chat, chat_stream and reset_conversation calls,
\* a chat_stream running to its end, failing upstream or being dropped by its
\* consumer, the conversation history alternates user and assistant entries
\* and starts with a user entry.
C22_HistoryAlternates ==
    \A i \in 1..Len(conversation_history) :
        conversation_history[i] = IF i % 2 = 1 THEN "user" ELSE "assistant"

====
